---- MODULE Spec2Model ----
(***************************************************************************)
(* DgraphAdapter (packages/dgraph/src/index.ts): the adapter's operations  *)
(* as request/response cycles against a graph backend reached through the  *)
(* transport c.run.  A call is invoked (its request is built and sent),    *)
(* the backend later runs the request atomically and the call's            *)
(* continuation runs on the response, or the transport fails and the       *)
(* awaiting call rejects.  deleteUser is the one call with two requests.   *)
(***************************************************************************)
EXTENDS Naturals, FiniteSets, TLC

\* ------------------------------------------------------------------ bounds
MaxUsers == 1
MaxAccounts == 1
MaxSessions == 1
MaxKey == 1
MaxTok == 1
MaxVal == 1
MaxVKey == 1
MaxVT == 1
MaxCalls == 2

UserIds == 1..MaxUsers
AccountIds == 1..MaxAccounts
SessionIds == 1..MaxSessions
Keys == 1..MaxKey
Toks == 1..MaxTok
Vals == 1..MaxVal
VKeys == 1..MaxVKey
Callers == 1..MaxCalls

VARIABLES
  users,        \* backend: user id -> email/name value, 0 = no such User
  accounts,     \* backend: account id -> [key, user], key 0 = no such Account
  sessions,     \* backend: session id -> [tok, user, val], tok 0 = no such Session
  vtokens,      \* backend: (identifier, token) key -> number of stored records
  nextUser,     \* backend: ids handed out so far (never reused)
  nextAccount,
  nextSession,
  transformers, \* options.transformers: operation name -> kind of hook configured
  calls         \* caller slot -> the call it holds

vars == <<users, accounts, sessions, vtokens, nextUser, nextAccount,
          nextSession, transformers, calls>>
backend == <<users, accounts, sessions, vtokens, nextUser, nextAccount,
             nextSession>>

Ops == {"createUser", "getUser", "getUserByEmail", "getUserByAccount",
        "updateUser", "deleteUser", "linkAccount", "unlinkAccount",
        "getSessionAndUser", "createSession", "updateSession",
        "deleteSession", "createVerificationToken", "useVerificationToken"}

\* ------------------------------------------------------------------ values
\* A plain-data object: an argument, a request's variables, an entity.
\* A field that is 0 / "none" is absent from the object.
Blank == [nil |-> FALSE, id |-> 0, userId |-> 0, user |-> 0, key |-> 0,
          tok |-> 0, val |-> 0, dt |-> "none", rw |-> 0]
\* null / undefined
Null == [Blank EXCEPT !.nil = TRUE]

\* format.from: null/absent stays null, date-like values become dates,
\* every other field passes through.
Format(object) ==
  IF object.nil THEN Null
  ELSE [object EXCEPT !.dt = IF @ = "iso" THEN "Date" ELSE @]

\* change(func, x): options?.transformers?.[func]?.(x) ?? x
Change(func, x) ==
  IF transformers[func] = "rewrite" THEN [x EXCEPT !.rw = @ + 1] ELSE x

\* the number of times change(func, x) invokes a hook
ChangeHooks(func) == IF transformers[func] = "none" THEN 0 ELSE 1

\* ------------------------------------------------------------------ backend
NoAccount == [key |-> 0, user |-> 0]
NoSession == [tok |-> 0, user |-> 0, val |-> 0]

\* a User as the backend returns it with UserFragment, null when absent
UserEntity(u) ==
  IF u \in UserIds /\ users[u] # 0
  THEN [Blank EXCEPT !.id = u, !.val = users[u], !.dt = "iso"]
  ELSE Null

\* a Session as the backend returns it with SessionFragment and user { id }
SessionEntity(s) ==
  [Blank EXCEPT !.id = s, !.tok = sessions[s].tok, !.val = sessions[s].val,
                !.user = UserEntity(sessions[s].user).id, !.dt = "iso"]

AccountsOf(u) == {a \in AccountIds : accounts[a].key # 0 /\ accounts[a].user = u}
SessionsOf(u) == {s \in SessionIds : sessions[s].tok # 0 /\ sessions[s].user = u}
AccountsByKey(k) == {a \in AccountIds : accounts[a].key = k}
SessionsByTok(t) == {s \in SessionIds : sessions[s].tok = t}
UsersByEmail(v) == {u \in UserIds : users[u] = v}

\* ------------------------------------------------------------------ calls
NoResult == [kind |-> "none", x |-> Null, y |-> Null]
Result(kind, x, y) == [kind |-> kind, x |-> x, y |-> y]

\* op: the operation; st: idle, await1 (first request in flight), await2
\* (deleteUser's second request in flight), resolved, rejected; arg: the
\* argument as given; req: the variables of the request built at invocation;
\* nreq: requests sent; hooks: transformer invocations; tx: what became of the
\* last request in the transport; res / err: the outcome; accs, sess:
\* deletedUser.accounts and deletedUser.sessions (ids) of a deleteUser call.
Idle == [op |-> "none", st |-> "idle", arg |-> Null, req |-> Null, nreq |-> 0,
         hooks |-> 0, tx |-> "none", res |-> NoResult, err |-> "none",
         accs |-> {}, sess |-> {}]

Awaiting(c) == calls[c].st \in {"await1", "await2"}
Free(c) == calls[c].st = "idle"

\* the call is invoked: its request is built and handed to c.run
Invoke(c, op, arg, req, hooks) ==
  calls' = [calls EXCEPT ![c] =
    [Idle EXCEPT !.op = op, !.st = "await1", !.arg = arg, !.req = req,
                 !.nreq = 1, !.hooks = hooks, !.tx = "inflight"]]

Resolve(c, res) ==
  calls' = [calls EXCEPT ![c].st = "resolved", ![c].res = res, ![c].tx = "ok"]

\* the request succeeded and the continuation threw err
Throw(c, err) ==
  calls' = [calls EXCEPT ![c].st = "rejected", ![c].err = err, ![c].tx = "ok"]

\* Reject with the failure caught and the call resolving all the same
RejectSwallowed(c) ==
  calls' = [calls EXCEPT ![c].st = "resolved", ![c].tx = "failed"]

\* the request in flight failed in the transport: the await throws, no
\* operation catches, the call rejects with the transport's error
Reject(c) ==
  calls' = [calls EXCEPT ![c].st = "rejected", ![c].err = "transport",
                         ![c].tx = "failed"]

Pending(c, op) == calls[c].op = op /\ calls[c].st = "await1"

\* The caller's side of the data model: it links an account or creates a
\* session for a User it holds, under a (provider, providerAccountId) pair or
\* a sessionToken that no record and no call in flight uses.
KeyUnused(k) ==
  /\ AccountsByKey(k) = {}
  /\ \A d \in Callers : ~(Pending(d, "linkAccount") /\ calls[d].req.key = k)

TokUnused(t) ==
  /\ SessionsByTok(t) = {}
  /\ \A d \in Callers : ~(Pending(d, "createSession") /\ calls[d].req.tok = t)

\* an entity or null as an operation's result
EntityResult(kind, x) ==
  IF x.nil THEN Result("null", Null, Null) ELSE Result(kind, x, Null)

Init ==
  /\ users = [u \in UserIds |-> 0]
  /\ accounts = [a \in AccountIds |-> NoAccount]
  /\ sessions = [s \in SessionIds |-> NoSession]
  /\ vtokens = [k \in VKeys |-> 0]
  /\ nextUser = 0
  /\ nextAccount = 0
  /\ nextSession = 0
  /\ transformers = [o \in Ops |-> "none"]
  /\ calls = [c \in Callers |-> Idle]

\* ------------------------------------------------------------------ User
CreateUser(c) ==
  /\ Free(c)
  /\ nextUser + Cardinality({d \in Callers : Pending(d, "createUser")}) < MaxUsers
  /\ \E v \in Vals :
       LET input == [Blank EXCEPT !.val = v]
       IN Invoke(c, "createUser", input, Change("createUser", input),
                 ChangeHooks("createUser"))
  /\ UNCHANGED <<backend, transformers>>

CreateUserDone(c) ==
  /\ Pending(c, "createUser")
  /\ nextUser' = nextUser + 1
  /\ users' = [users EXCEPT ![nextUser + 1] = calls[c].req.val]
  /\ Resolve(c, EntityResult("user",
       Format([Blank EXCEPT !.id = nextUser + 1, !.val = calls[c].req.val,
                            !.dt = "iso"])))
  /\ UNCHANGED <<accounts, sessions, vtokens, nextAccount, nextSession,
                 transformers>>

GetUser(c) ==
  /\ Free(c)
  /\ \E i \in UserIds :
       LET id == [Blank EXCEPT !.id = i]
       IN Invoke(c, "getUser", id, Change("getUser", id), ChangeHooks("getUser"))
  /\ UNCHANGED <<backend, transformers>>

GetUserDone(c) ==
  /\ Pending(c, "getUser")
  /\ Resolve(c, EntityResult("user", Format(UserEntity(calls[c].req.id))))
  /\ UNCHANGED <<backend, transformers>>

GetUserByEmail(c) ==
  /\ Free(c)
  /\ \E v \in Vals :
       LET email == [Blank EXCEPT !.val = v]
       IN Invoke(c, "getUserByEmail", email, Change("getUserByEmail", email),
                 ChangeHooks("getUserByEmail"))
  /\ UNCHANGED <<backend, transformers>>

\* const [user] = ...: the first match in the backend's order, undefined if none
GetUserByEmailDone(c) ==
  /\ Pending(c, "getUserByEmail")
  /\ LET found == UsersByEmail(calls[c].req.val)
     IN \/ /\ found = {}
           /\ Resolve(c, EntityResult("user", Format(Null)))
        \/ \E u \in found :
             Resolve(c, EntityResult("user", Format(UserEntity(u))))
  /\ UNCHANGED <<backend, transformers>>

GetUserByAccount(c) ==
  /\ Free(c)
  /\ \E k \in Keys :
       LET pp == [Blank EXCEPT !.key = k]
       IN Invoke(c, "getUserByAccount", pp, Change("getUserByAccount", pp),
                 ChangeHooks("getUserByAccount"))
  /\ UNCHANGED <<backend, transformers>>

\* format.from(account?.user)
GetUserByAccountDone(c) ==
  /\ Pending(c, "getUserByAccount")
  /\ LET found == AccountsByKey(calls[c].req.key)
     IN \/ /\ found = {}
           /\ Resolve(c, EntityResult("user", Format(Null)))
        \/ \E a \in found :
             Resolve(c, EntityResult("user",
                                     Format(UserEntity(accounts[a].user))))
  /\ UNCHANGED <<backend, transformers>>

UpdateUser(c) ==
  /\ Free(c)
  /\ \E i \in UserIds, v \in Vals :
       LET patch == [Blank EXCEPT !.id = i, !.val = v]
       IN Invoke(c, "updateUser", patch, Change("updateUser", patch),
                 ChangeHooks("updateUser"))
  /\ UNCHANGED <<backend, transformers>>

\* format.from(result.user[0]): the updated User, undefined when none matched
UpdateUserDone(c) ==
  /\ Pending(c, "updateUser")
  /\ LET id == calls[c].req.id
         v == calls[c].req.val
     IN IF UserEntity(id).nil
        THEN /\ Resolve(c, EntityResult("user", Format(Null)))
             /\ UNCHANGED users
        ELSE /\ users' = [users EXCEPT ![id] = v]
             /\ Resolve(c, EntityResult("user",
                           Format([UserEntity(id) EXCEPT !.val = v])))
  /\ UNCHANGED <<accounts, sessions, vtokens, nextUser, nextAccount,
                 nextSession, transformers>>

DeleteUser(c) ==
  /\ Free(c)
  /\ \E i \in UserIds :
       LET id == [Blank EXCEPT !.id = i]
       IN Invoke(c, "deleteUser", id, Change("deleteUser", id),
                 ChangeHooks("deleteUser"))
  /\ UNCHANGED <<backend, transformers>>

\* The first response.  deletedUser = format.from(result.user[0]) is the
\* deleted User's accounts { id } and sessions { id }, or null when no User
\* matched; deletedUser.sessions then throws.  Otherwise the second request
\* is sent with the ids captured.
DeleteUserDone(c) ==
  /\ Pending(c, "deleteUser")
  /\ LET id == calls[c].req.id
     IN IF UserEntity(id).nil
        THEN /\ Throw(c, "TypeError")
             /\ UNCHANGED users
        ELSE /\ users' = [users EXCEPT ![id] = 0]
             /\ calls' = [calls EXCEPT ![c].st = "await2", ![c].nreq = 2,
                                       ![c].tx = "inflight",
                                       ![c].accs = AccountsOf(id),
                                       ![c].sess = SessionsOf(id)]
  /\ UNCHANGED <<accounts, sessions, vtokens, nextUser, nextAccount,
                 nextSession, transformers>>

\* DeleteUserCascade with the second mutation deleting the Accounts only
DeleteUserCascadeAccountsOnly(c) ==
  /\ calls[c].op = "deleteUser"
  /\ calls[c].st = "await2"
  /\ accounts' = [a \in AccountIds |->
                    IF a \in calls[c].accs THEN NoAccount ELSE accounts[a]]
  /\ Resolve(c, Result("deleted", Blank, Null))
  /\ UNCHANGED <<users, sessions, vtokens, nextUser, nextAccount, nextSession,
                 transformers>>

\* The second response: the Accounts and Sessions with the captured ids are
\* deleted; the call returns deletedUser.
DeleteUserCascade(c) ==
  /\ calls[c].op = "deleteUser"
  /\ calls[c].st = "await2"
  /\ accounts' = [a \in AccountIds |->
                    IF a \in calls[c].accs THEN NoAccount ELSE accounts[a]]
  /\ sessions' = [s \in SessionIds |->
                    IF s \in calls[c].sess THEN NoSession ELSE sessions[s]]
  /\ Resolve(c, Result("deleted", Blank, Null))
  /\ UNCHANGED <<users, vtokens, nextUser, nextAccount, nextSession,
                 transformers>>

\* ------------------------------------------------------------------ Account
\* const { userId, ...input } = data;  { ...input, user: { id: userId } }
LinkAccountInput(data) == [data EXCEPT !.userId = 0, !.user = data.userId]

\* LinkAccountReturn returning the record the server echoed
LinkAccountReturnEchoed(data, echoed) == Result("account", Format(echoed), Null)

\* return data: the argument itself, whatever the server echoed
LinkAccountReturn(data, echoed) == Result("data", data, Null)

LinkAccount(c) ==
  /\ Free(c)
  /\ nextAccount + Cardinality({d \in Callers : Pending(d, "linkAccount")})
       < MaxAccounts
  /\ \E u \in UserIds, k \in Keys :
       /\ users[u] # 0
       /\ KeyUnused(k)
       /\ LET data == [Blank EXCEPT !.userId = u, !.key = k]
          IN Invoke(c, "linkAccount", data,
                    Change("linkAccount", LinkAccountInput(data)),
                    ChangeHooks("linkAccount"))
  /\ UNCHANGED <<backend, transformers>>

LinkAccountDone(c) ==
  /\ Pending(c, "linkAccount")
  /\ nextAccount' = nextAccount + 1
  /\ accounts' = [accounts EXCEPT ![nextAccount + 1] =
                    [key |-> calls[c].req.key, user |-> calls[c].req.user]]
  /\ Resolve(c, LinkAccountReturn(calls[c].arg,
       [Blank EXCEPT !.id = nextAccount + 1, !.key = calls[c].req.key]))
  /\ UNCHANGED <<users, sessions, vtokens, nextUser, nextSession, transformers>>

UnlinkAccount(c) ==
  /\ Free(c)
  /\ \E k \in Keys :
       LET pp == [Blank EXCEPT !.key = k]
       IN Invoke(c, "unlinkAccount", pp, Change("unlinkAccount", pp),
                 ChangeHooks("unlinkAccount"))
  /\ UNCHANGED <<backend, transformers>>

UnlinkAccountDone(c) ==
  /\ Pending(c, "unlinkAccount")
  /\ accounts' = [a \in AccountIds |->
                    IF a \in AccountsByKey(calls[c].req.key)
                    THEN NoAccount ELSE accounts[a]]
  /\ Resolve(c, Result("void", Null, Null))
  /\ UNCHANGED <<users, sessions, vtokens, nextUser, nextAccount, nextSession,
                 transformers>>

\* ------------------------------------------------------------------ Session
GetSessionAndUser(c) ==
  /\ Free(c)
  /\ \E t \in Toks :
       LET sessionToken == [Blank EXCEPT !.tok = t]
       IN Invoke(c, "getSessionAndUser", sessionToken,
                 Change("getSessionAndUser", sessionToken),
                 ChangeHooks("getSessionAndUser"))
  /\ UNCHANGED <<backend, transformers>>

\* { user: format.from(user), session: { ...format.from(session), userId:
\* user.id } } of the first match; user.id throws when the joined user is null
SessionAndUser(c, s) ==
  LET user == UserEntity(sessions[s].user)
      session == [SessionEntity(s) EXCEPT !.user = 0]
  IN IF user.nil
     THEN Throw(c, "TypeError")
     ELSE Resolve(c, Result("sessionAndUser", Format(user),
                            [Format(session) EXCEPT !.userId = user.id]))

GetSessionAndUserDone(c) ==
  /\ Pending(c, "getSessionAndUser")
  /\ LET found == SessionsByTok(calls[c].req.tok)
     IN \/ /\ found = {}
           /\ Resolve(c, Result("null", Null, Null))
        \/ \E s \in found : SessionAndUser(c, s)
  /\ UNCHANGED <<backend, transformers>>

\* const { userId, ...input } = transformers.createSession
\*   ? transformers.createSession(data) : data
CreateSessionPayload(data) ==
  CASE transformers["createSession"] = "none" -> data
    [] transformers["createSession"] = "rewrite" -> [data EXCEPT !.rw = @ + 1]
    [] OTHER -> Null

\* { ...input, user: { id: userId } }
CreateSessionInput(payload) ==
  [payload EXCEPT !.userId = 0, !.user = payload.userId]

\* transformer invocations of one createSession call
CreateSessionHooks ==
  IF transformers["createSession"] = "none" THEN 0
  ELSE 1 + ChangeHooks("createSession")

\* return data
CreateSessionReturn(data, payload) == Result("data", data, Null)

\* destructuring the undefined a transformer returned throws before any
\* request is sent
CreateSession(c) ==
  /\ Free(c)
  /\ nextSession + Cardinality({d \in Callers : Pending(d, "createSession")})
       < MaxSessions
  /\ \E u \in UserIds, t \in Toks, v \in Vals :
       /\ users[u] # 0
       /\ TokUnused(t)
       /\ LET data == [Blank EXCEPT !.userId = u, !.tok = t, !.val = v]
              payload == CreateSessionPayload(data)
          IN IF payload.nil
             THEN calls' = [calls EXCEPT ![c] =
                    [Idle EXCEPT !.op = "createSession", !.st = "rejected",
                                 !.arg = data, !.hooks = 1,
                                 !.err = "TypeError"]]
             ELSE Invoke(c, "createSession", data,
                         Change("createSession", CreateSessionInput(payload)),
                         CreateSessionHooks)
  /\ UNCHANGED <<backend, transformers>>

CreateSessionDone(c) ==
  /\ Pending(c, "createSession")
  /\ nextSession' = nextSession + 1
  /\ sessions' = [sessions EXCEPT ![nextSession + 1] =
                    [tok |-> calls[c].req.tok, user |-> calls[c].req.user,
                     val |-> calls[c].req.val]]
  /\ Resolve(c, CreateSessionReturn(calls[c].arg, calls[c].req))
  /\ UNCHANGED <<users, accounts, vtokens, nextUser, nextAccount, transformers>>

UpdateSession(c) ==
  /\ Free(c)
  /\ \E t \in Toks, v \in Vals :
       LET patch == [Blank EXCEPT !.tok = t, !.val = v]
       IN Invoke(c, "updateSession", patch, Change("updateSession", patch),
                 ChangeHooks("updateSession"))
  /\ UNCHANGED <<backend, transformers>>

\* UpdatedSession without the guard on session.user.id
UpdatedSessionPartial(session) ==
  IF session.nil
  THEN Result("null", Null, Null)
  ELSE Result("session", [session EXCEPT !.userId = session.user], Null)

\* session = format.from(result.session[0]);
\* if (!session?.user?.id) return null;
\* return { ...session, userId: session.user.id }
UpdatedSession(session) ==
  IF session.nil \/ session.user = 0
  THEN Result("null", Null, Null)
  ELSE Result("session", [session EXCEPT !.userId = session.user], Null)

UpdateSessionDone(c) ==
  /\ Pending(c, "updateSession")
  /\ LET found == SessionsByTok(calls[c].req.tok)
     IN /\ sessions' = [s \in SessionIds |->
                          IF s \in found
                          THEN [sessions[s] EXCEPT !.val = calls[c].req.val]
                          ELSE sessions[s]]
        /\ \/ /\ found = {}
              /\ Resolve(c, UpdatedSession(Format(Null)))
           \/ \E s \in found :
                Resolve(c, UpdatedSession(Format(
                  [SessionEntity(s) EXCEPT !.val = calls[c].req.val])))
  /\ UNCHANGED <<users, accounts, vtokens, nextUser, nextAccount, nextSession,
                 transformers>>

DeleteSession(c) ==
  /\ Free(c)
  /\ \E t \in Toks :
       LET sessionToken == [Blank EXCEPT !.tok = t]
       IN Invoke(c, "deleteSession", sessionToken,
                 Change("deleteSession", sessionToken),
                 ChangeHooks("deleteSession"))
  /\ UNCHANGED <<backend, transformers>>

DeleteSessionDone(c) ==
  /\ Pending(c, "deleteSession")
  /\ sessions' = [s \in SessionIds |->
                    IF s \in SessionsByTok(calls[c].req.tok)
                    THEN NoSession ELSE sessions[s]]
  /\ Resolve(c, Result("void", Null, Null))
  /\ UNCHANGED <<users, accounts, vtokens, nextUser, nextAccount, nextSession,
                 transformers>>

\* ------------------------------------------------------------------ VerificationToken
CreateVerificationToken(c) ==
  /\ Free(c)
  /\ \E k \in VKeys :
       /\ vtokens[k] + Cardinality({d \in Callers :
            Pending(d, "createVerificationToken") /\ calls[d].req.key = k})
            < MaxVT
       /\ LET input == [Blank EXCEPT !.key = k]
          IN Invoke(c, "createVerificationToken", input,
                    Change("createVerificationToken", input),
                    ChangeHooks("createVerificationToken"))
  /\ UNCHANGED <<backend, transformers>>

\* format.from(result): the mutation's acknowledgment { numUids }
CreateVerificationTokenDone(c) ==
  /\ Pending(c, "createVerificationToken")
  /\ vtokens' = [vtokens EXCEPT ![calls[c].req.key] = @ + 1]
  /\ Resolve(c, Result("ack", Format(Blank), Null))
  /\ UNCHANGED <<users, accounts, sessions, nextUser, nextAccount, nextSession,
                 transformers>>

UseVerificationToken(c) ==
  /\ Free(c)
  /\ \E k \in VKeys :
       LET params == [Blank EXCEPT !.key = k]
       IN Invoke(c, "useVerificationToken", params,
                 Change("useVerificationToken", params),
                 ChangeHooks("useVerificationToken"))
  /\ UNCHANGED <<backend, transformers>>

\* the records deleteVerificationToken deleted, as it returns them
DeletedVerificationToken(k) ==
  IF vtokens[k] = 0 THEN Null ELSE [Blank EXCEPT !.key = k, !.dt = "iso"]

\* UseVerificationTokenDone as a read that deletes nothing
UseVerificationTokenKept(c) ==
  /\ Pending(c, "useVerificationToken")
  /\ Resolve(c, EntityResult("verificationToken",
                             Format(DeletedVerificationToken(calls[c].req.key))))
  /\ UNCHANGED <<backend, transformers>>

\* format.from(result.verificationToken[0])
UseVerificationTokenDone(c) ==
  /\ Pending(c, "useVerificationToken")
  /\ vtokens' = [vtokens EXCEPT ![calls[c].req.key] = 0]
  /\ Resolve(c, EntityResult("verificationToken",
                             Format(DeletedVerificationToken(calls[c].req.key))))
  /\ UNCHANGED <<users, accounts, sessions, nextUser, nextAccount, nextSession,
                 transformers>>

\* ------------------------------------------------------------------ transport
\* Fail with the failed request sent once more
FailRetried(c) ==
  /\ Awaiting(c)
  /\ calls' = [calls EXCEPT ![c].tx = "failed", ![c].nreq = @ + 1]
  /\ UNCHANGED <<backend, transformers>>

\* c.run raises: the request in flight fails and changes nothing
Fail(c) ==
  /\ Awaiting(c)
  /\ Reject(c)
  /\ UNCHANGED <<backend, transformers>>

\* the caller takes the settled call's outcome; the slot is free again
Return(c) ==
  /\ calls[c].st \in {"resolved", "rejected"}
  /\ calls' = [calls EXCEPT ![c] = Idle]
  /\ UNCHANGED <<backend, transformers>>

\* ------------------------------------------------------------------ specifications
Call(c) ==
  \/ CreateUser(c) \/ GetUser(c) \/ GetUserByEmail(c) \/ GetUserByAccount(c)
  \/ UpdateUser(c) \/ DeleteUser(c) \/ LinkAccount(c) \/ UnlinkAccount(c)
  \/ GetSessionAndUser(c) \/ CreateSession(c) \/ UpdateSession(c)
  \/ DeleteSession(c) \/ CreateVerificationToken(c) \/ UseVerificationToken(c)

Respond(c) ==
  \/ CreateUserDone(c) \/ GetUserDone(c) \/ GetUserByEmailDone(c)
  \/ GetUserByAccountDone(c) \/ UpdateUserDone(c) \/ DeleteUserDone(c)
  \/ DeleteUserCascade(c) \/ LinkAccountDone(c) \/ UnlinkAccountDone(c)
  \/ GetSessionAndUserDone(c) \/ CreateSessionDone(c) \/ UpdateSessionDone(c)
  \/ DeleteSessionDone(c) \/ CreateVerificationTokenDone(c)
  \/ UseVerificationTokenDone(c)

\* one call at a time, every operation, requests may fail
Next == Call(1) \/ Respond(1) \/ Fail(1) \/ Return(1)

Spec == Init /\ [][Next]_vars

\* concurrent callers around deleteUser's two requests, every request succeeds
ConcNext ==
  \E c \in Callers :
    \/ CreateUser(c) \/ CreateUserDone(c)
    \/ LinkAccount(c) \/ LinkAccountDone(c)
    \/ CreateSession(c) \/ CreateSessionDone(c)
    \/ DeleteUser(c) \/ DeleteUserDone(c) \/ DeleteUserCascade(c)
    \/ GetSessionAndUser(c) \/ GetSessionAndUserDone(c)
    \/ Return(c)

ConcSpec == Init /\ [][ConcNext]_vars

\* concurrent callers of the verification token operations
TokenNext ==
  \E c \in Callers :
    \/ CreateVerificationToken(c) \/ CreateVerificationTokenDone(c)
    \/ UseVerificationToken(c) \/ UseVerificationTokenDone(c)
    \/ Fail(c) \/ Return(c)

TokenSpec == Init /\ [][TokenNext]_vars

\* options.transformers as given at construction: no hook, or one hook, for
\* one of the operations in hookable, that rewrites its argument or returns
\* nothing
HookKinds == {"rewrite", "nullish"}

Configured(hookable) ==
  /\ users = [u \in UserIds |-> 0]
  /\ accounts = [a \in AccountIds |-> NoAccount]
  /\ sessions = [s \in SessionIds |-> NoSession]
  /\ vtokens = [k \in VKeys |-> 0]
  /\ nextUser = 0
  /\ nextAccount = 0
  /\ nextSession = 0
  /\ \E hooked \in hookable \cup {"none"}, kind \in HookKinds :
       transformers = [o \in Ops |-> IF o = hooked THEN kind ELSE "none"]
  /\ calls = [c \in Callers |-> Idle]

HookInit == Configured(Ops)

HookNext == Call(1) \/ Respond(1) \/ Return(1)

HookSpec == HookInit /\ [][HookNext]_vars

\* one call at a time of the Account operations, with a hook on one of them
LinkInit ==
  Configured({"createUser", "linkAccount", "getUserByAccount", "unlinkAccount",
              "deleteUser"})

LinkNext ==
  \/ CreateUser(1) \/ CreateUserDone(1)
  \/ LinkAccount(1) \/ LinkAccountDone(1)
  \/ GetUserByAccount(1) \/ GetUserByAccountDone(1)
  \/ UnlinkAccount(1) \/ UnlinkAccountDone(1)
  \/ DeleteUser(1) \/ DeleteUserDone(1) \/ DeleteUserCascade(1)
  \/ Return(1)

LinkSpec == LinkInit /\ [][LinkNext]_vars

\* ------------------------------------------------------------------ claims
Settled(c) == calls[c].st \in {"resolved", "rejected"}

\* C1: a deleteUser(id) that ran alone and resolved leaves no User id
\* (getUser(id) is null), and its second request deleted exactly the Accounts
\* and Sessions the first request returned, which are all those the user
\* owned: none is found again under its (provider, providerAccountId) pair
\* or its sessionToken.
C1_SequentialCascade ==
  [][(calls[1].op = "deleteUser" /\ calls[1].st = "await2"
        /\ calls'[1].st = "resolved")
     => \E id \in UserIds :
           /\ id = calls[1].arg.id
           /\ UserEntity(id)'.nil
           /\ calls[1].accs = AccountsOf(id)
           /\ calls[1].sess = SessionsOf(id)
           /\ {a \in AccountIds : accounts'[a] # accounts[a]} = calls[1].accs
           /\ {s \in SessionIds : sessions'[s] # sessions[s]} = calls[1].sess
           /\ AccountsOf(id)' = {} /\ SessionsOf(id)' = {}
           /\ \A a \in calls[1].accs, k \in Keys :
                accounts[a].key = k => AccountsByKey(k)' = {}
           /\ \A s \in calls[1].sess, t \in Toks :
                sessions[s].tok = t => SessionsByTok(t)' = {}]_vars

C1_Witness ==
  /\ calls[1].op = "deleteUser" /\ calls[1].st = "resolved"
  /\ calls[1].accs # {} /\ calls[1].sess # {}

\* C2: once deleteUser(id) has resolved and no call is in flight, no Account
\* and no Session is owned by the deleted user.
C2_NoOrphans ==
  \A c \in Callers :
    (calls[c].op = "deleteUser" /\ calls[c].st = "resolved"
       /\ \A d \in Callers : ~Awaiting(d))
    => AccountsOf(calls[c].arg.id) = {} /\ SessionsOf(calls[c].arg.id) = {}

\* C3: a call whose request failed in the transport is rejected with the
\* transport's error, and from then on sends nothing: the call stays as it
\* is until the caller takes its outcome.
C3_FailurePropagates ==
  /\ [](\A c \in Callers :
          calls[c].tx = "failed"
          => calls[c].st = "rejected" /\ calls[c].err = "transport")
  /\ [][\A c \in Callers :
          calls[c].tx = "failed" => calls'[c] \in {calls[c], Idle}]_vars

C3_Witness ==
  /\ calls[1].op = "deleteUser" /\ calls[1].nreq = 2
  /\ calls[1].tx = "failed" /\ calls[1].st = "rejected"

C5_OnlyTransportErrors ==
  \A c \in Callers : calls[c].st = "rejected" => calls[c].tx = "failed"

\* C6: a useVerificationToken(identifier, token) that finds a stored record
\* deletes every record of that key and resolves with it; one that finds none
\* resolves with null; and a record of a key is only ever stored by a
\* createVerificationToken of that key.  So of the calls that use one stored
\* token, the first to reach the backend gets it and every other gets null.
C6_SingleUse ==
  /\ [][\A c \in Callers, k \in VKeys :
          (Pending(c, "useVerificationToken") /\ calls[c].arg.key = k
             /\ calls'[c].st = "resolved")
          => /\ vtokens'[k] = 0
             /\ IF vtokens[k] > 0
                THEN /\ calls'[c].res.kind = "verificationToken"
                     /\ calls'[c].res.x.key = k
                ELSE calls'[c].res.kind = "null"]_vars
  /\ [][\A k \in VKeys :
          vtokens'[k] > vtokens[k]
          => \E c \in Callers :
               /\ Pending(c, "createVerificationToken")
               /\ calls[c].arg.key = k
               /\ calls'[c].st = "resolved"]_vars

\* two calls used the same key at once: one got the token, the other null
C6_Witness ==
  \E c, d \in Callers :
    /\ calls[c].op = "useVerificationToken"
    /\ calls[d].op = "useVerificationToken"
    /\ calls[c].arg.key = calls[d].arg.key
    /\ calls[c].st = "resolved" /\ calls[c].res.kind = "verificationToken"
    /\ calls[d].st = "resolved" /\ calls[d].res.kind = "null"

\* C7: updateSession resolves with null, and then no Session of that
\* sessionToken has a User, or with a session whose userId is present and is
\* the id of the User owning the Session of that sessionToken.
C7_NoPartialSession ==
  \A c \in Callers :
    (calls[c].op = "updateSession" /\ calls[c].st = "resolved")
    => \/ /\ calls[c].res.kind = "null"
          /\ \A s \in SessionsByTok(calls[c].arg.tok) :
               UserEntity(sessions[s].user).nil
       \/ /\ calls[c].res.kind = "session"
          /\ calls[c].res.x.userId # 0
          /\ calls[c].res.x.tok = calls[c].arg.tok
          /\ ~UserEntity(calls[c].res.x.userId).nil
          /\ \E s \in SessionsByTok(calls[c].arg.tok) :
               sessions[s].user = calls[c].res.x.userId

\* the Session was updated, its User is gone, and the call resolved with null
C7_Witness ==
  \E c \in Callers :
    /\ calls[c].op = "updateSession" /\ calls[c].st = "resolved"
    /\ calls[c].res.kind = "null"
    /\ SessionsByTok(calls[c].arg.tok) # {}

\* C8 as stated: linkAccount's one request carries the given fields without
\* userId plus user: { id: userId }, and the call resolves with its argument,
\* whatever transformer is configured.
C8_LinkAccountPlain ==
  \A c \in Callers :
    (calls[c].op = "linkAccount" /\ calls[c].nreq >= 1)
    => /\ calls[c].nreq = 1
       /\ calls[c].req = [calls[c].arg EXCEPT !.userId = 0,
                                               !.user = calls[c].arg.userId]
       /\ calls[c].st = "resolved"
          => calls[c].res = [kind |-> "data", x |-> calls[c].arg, y |-> Null]

\* C8 amended: the one request carries the given fields without userId plus
\* user: { id: userId } as the linkAccount transformer rewrote them (as they
\* are when none is configured or it returns nothing), and the call resolves
\* with its argument.
C8_LinkAccountTransformed ==
  \A c \in Callers :
    (calls[c].op = "linkAccount" /\ calls[c].nreq >= 1)
    => /\ calls[c].nreq = 1
       /\ calls[c].req =
            [calls[c].arg EXCEPT
               !.userId = 0, !.user = calls[c].arg.userId,
               !.rw = IF transformers["linkAccount"] = "rewrite" THEN 1 ELSE 0]
       /\ calls[c].st = "resolved"
          => calls[c].res = [kind |-> "data", x |-> calls[c].arg, y |-> Null]

C8_Witness ==
  /\ transformers["linkAccount"] = "rewrite"
  /\ calls[1].op = "linkAccount" /\ calls[1].st = "resolved"

\* C9: getSessionAndUser resolves, with null or with { session, user } where
\* session.userId is user.id.
C9_SessionAndUserTotal ==
  \A c \in Callers :
    (calls[c].op = "getSessionAndUser" /\ Settled(c))
    => /\ calls[c].st = "resolved"
       /\ \/ calls[c].res.kind = "null"
          \/ /\ calls[c].res.kind = "sessionAndUser"
             /\ calls[c].res.x.id # 0
             /\ calls[c].res.y.userId = calls[c].res.x.id

\* C10: a call invokes the hook configured for its operation once and no
\* other hook, and its request carries the hook's one rewriting of the
\* argument, or the argument as it is when no hook is configured.
C10_HookOnce ==
  \A c \in Callers :
    calls[c].op \in Ops
    => /\ calls[c].hooks =
            (IF transformers[calls[c].op] = "none" THEN 0 ELSE 1)
       /\ calls[c].nreq >= 1
          => calls[c].req.rw =
               (IF transformers[calls[c].op] = "rewrite" THEN 1 ELSE 0)
====
